---- MODULE Spec2Model ----
(***************************************************************************)
(* Logs Search Bot (src/app.py): the access-gated, deduplicated search     *)
(* pipeline.  Text is modelled as sequences of one-character strings, the  *)
(* clock (time.time() / datetime.now() / NOW()) as one integer `now`.      *)
(*                                                                         *)
(* Two specifications:                                                     *)
(*   Spec     - every handler runs to completion before the next starts;   *)
(*   SpecConc - two process_search flows of the threaded bot interleave at *)
(*              the granularity of the statements sent over the single     *)
(*              shared connection/cursor.                                  *)
(***************************************************************************)
EXTENDS Integers, Sequences, FiniteSets, TLC

\* ------------------------------------------------------------------ bounds
MaxTime == 4          \* the clock runs from T0 to MaxTime
MaxDays == 1          \* /grant takes days in 0..MaxDays

\* ------------------------------------------------------- program constants
MAX_LINES        == 2      \* cap of one result batch (scaled down from 200)
COOLDOWN_SECONDS == 2      \* scaled down from 60
ADMIN_ID         == 9
DAY              == 1      \* timedelta(days=1) in clock units (scaled down)
T0               == COOLDOWN_SECONDS   \* the clock at process start: time.time()
                           \* is far beyond COOLDOWN_SECONDS, so a user without
                           \* a cooldown entry (default 0) is never cooling
ADMIN_WEB_TOKEN      == "tok"
WEBHOOK_UPLOAD_TOKEN == "tok"   \* uploadlog compares the same request token

None == 0 - 1          \* no row / no value (Python None, SQL no row)
NoKeys == [k \in {} |-> None]     \* table keys without rows

Users   == {1, 2}                 \* chat users that search
Senders == {1, ADMIN_ID}         \* senders of admin commands
Tokens  == {ADMIN_WEB_TOKEN, "bad"}

\* ------------------------------------------------------------------- text
NL == "\n"

\* raw message texts a user may send as keyword
KwA      == <<" ", "A">>          \* normalizes to "a"
KwB      == <<"b">>
KwBlank  == <<" ">>               \* empty after strip()
\* keys of table keys, and the key texts the handlers are called with
Key1     == <<"x">>
Key2     == <<"y">>
KeyNames == {Key1, Key2}
RawKeys  == {Key1, <<" ", "y">>, KwBlank}
RawKeywords == {KwA, KwB, KwBlank}

\* lines of LOG_FILE as the file iterator yields them (newline kept)
Lax  == <<"a", "x", NL>>
LAb  == <<"A", "b", NL>>
Lay  == <<"a", "y", NL>>
Lblk == <<" ", NL>>
FileMain  == <<Lax, Lax, Lblk, Lay, LAb>>   \* "a": 3 distinct lines, "b": 1
FileSmall == <<Lay, Lay, <<"a", "y">>>>      \* one line three times, the last
                                            \* without newline
Files == {FileMain, FileSmall}

isspace(c) == c \in {" ", NL}

lower_char(c) == IF c = "A" THEN "a" ELSE IF c = "B" THEN "b" ELSE c

\* str.lower()
lower(s) == [i \in 1..Len(s) |-> lower_char(s[i])]

minOf(S) == CHOOSE x \in S : \A y \in S : x <= y
maxOf(S) == CHOOSE x \in S : \A y \in S : x >= y

\* str.strip(): drop leading and trailing whitespace
strip(s) ==
    LET keep == {i \in 1..Len(s) : ~isspace(s[i])}
    IN  IF keep = {} THEN <<>> ELSE SubSeq(s, minOf(keep), maxOf(keep))

\* str.rstrip("\n")
rstrip_nl(s) ==
    LET keep == {i \in 1..Len(s) : s[i] # NL}
    IN  IF keep = {} THEN <<>> ELSE SubSeq(s, 1, maxOf(keep))

\* `k in s` for strings
contains(k, s) == \E i \in 0..(Len(s) - Len(k)) : SubSeq(s, i + 1, i + Len(k)) = k

RECURSIVE mapfilter_lines(_)
mapfilter_lines(fh) ==
    IF fh = <<>> THEN <<>>
    ELSE IF strip(Head(fh)) # <<>>
         THEN <<rstrip_nl(Head(fh))>> \o mapfilter_lines(Tail(fh))
         ELSE mapfilter_lines(Tail(fh))

\* reload_logs(): LOGS = [line.rstrip("\n") for line in fh if line.strip()]
reload_logs(fh) == mapfilter_lines(fh)

Range(s) == {s[i] : i \in 1..Len(s)}

\* the normalized keywords and the lines any corpus can hold
Keywords == {lower(strip(r)) : r \in RawKeywords} \ {<<>>}
LogLines == UNION {{reload_logs(f)[i] : i \in 1..Len(reload_logs(f))} : f \in Files}
Keys     == Users \X Keywords \X LogLines

\* ------------------------------------------------------------------ state
VARIABLES
    now,             \* the wall clock
    file,            \* the content of LOG_FILE on disk
    LOGS,            \* the in-memory corpus
    users,           \* table users: user_id -> expires (None: no row)
    searches,        \* table searches as the shared connection sees it
    committed,       \* the committed rows of table searches
    aborted,         \* the connection's transaction is in the failed state
    curs,            \* unread rows of the shared cursor's last statement
    user_cooldowns,  \* _user_cooldowns, absent entries read as 0
    flow,            \* the concurrent process_search flows (SpecConc)
    last,            \* the last process_search or /start call and its outcome
    sent,            \* history: keys sent once in a Found batch since the
                     \* last delsearch of their (user, keyword)
    resent,          \* history: keys sent in more than one Found batch
    foundAt,         \* history: time of the user's latest search with new lines
    rebooted,        \* history: the process restarted since foundAt[u]
    history,         \* history: the log of the searches that wrote delivery
                     \* records and of the delsearches that deleted some, kept
                     \* only by the specifications that start it (SpecLedger)
    keys             \* table keys: key -> [expires, redeemed_by], a row per key

vars == <<now, file, LOGS, users, searches, committed, aborted, curs,
          user_cooldowns, flow, last, sent, resent, foundAt, rebooted, history,
          keys>>

dbvars   == <<users, searches, committed, aborted, curs>>
histvars == <<sent, resent, foundAt, rebooted, history>>

Flows == {1, 2}
IdleFlow == [pc |-> "idle", uid |-> 0, raw |-> <<>>, keyword |-> <<>>,
             it |-> <<>>, i |-> 0, found |-> <<>>, outcome |-> "-",
             at |-> 0]       \* at: the time a Found answer was given

NoOp == [op |-> "init", uid |-> 0, kw |-> <<>>, outcome |-> "-",
         found |-> <<>>, rem |-> 0, capped |-> FALSE, evicted |-> FALSE]

Result(op, uid, kw, outcome, found, rem, capped, evicted) ==
    [op |-> op, uid |-> uid, kw |-> kw, outcome |-> outcome,
     found |-> found, rem |-> rem, capped |-> capped, evicted |-> evicted]

\* ---------------------------------------------------------------- helpers
\* faulty variant of check_cooldown: the gate opens one second early
check_cooldown_early(uid) ==
    LET remaining == COOLDOWN_SECONDS - (now - user_cooldowns[uid])
    IN  IF remaining > 1
        THEN [allowed |-> FALSE, rem |-> remaining]
        ELSE [allowed |-> TRUE, rem |-> 0]

\* check_cooldown(user_id) -> (allowed, remaining)
check_cooldown(uid) ==
    LET remaining == COOLDOWN_SECONDS - (now - user_cooldowns[uid])
    IN  IF remaining > 0
        THEN [allowed |-> FALSE, rem |-> remaining]
        ELSE [allowed |-> TRUE, rem |-> 0]

\* faulty variant of user_has_access: the expiry is not looked at
user_has_access_noexpiry(uid) ==
    [ret |-> users[uid] # None, users |-> users]

\* faulty variant of user_has_access: an expired row is reported but not deleted
user_has_access_noevict(uid) ==
    LET expires == users[uid]
    IN  IF expires = None THEN [ret |-> FALSE, users |-> users]
        ELSE IF now <= expires THEN [ret |-> TRUE, users |-> users]
        ELSE [ret |-> FALSE, users |-> users]

\* faulty variant of user_has_access: access ends at the instant of expiry
user_has_access_strict(uid) ==
    LET expires == users[uid]
    IN  IF expires = None THEN [ret |-> FALSE, users |-> users]
        ELSE IF now < expires THEN [ret |-> TRUE, users |-> users]
        ELSE [ret |-> FALSE, users |-> [users EXCEPT ![uid] = None]]

\* user_has_access(user_id): the value returned and the users table it leaves
user_has_access(uid) ==
    LET expires == users[uid]
    IN  IF expires = None THEN [ret |-> FALSE, users |-> users]
        ELSE IF now <= expires THEN [ret |-> TRUE, users |-> users]
        ELSE [ret |-> FALSE, users |-> [users EXCEPT ![uid] = None]]

\* get_user_expiry(user_id): read only
get_user_expiry(uid) == users[uid]

\* faulty variant of scan: an accepted line is not recorded
RECURSIVE scan_norecord(_, _, _, _, _, _)
scan_norecord(logs, i, uid, keyword, found, view) ==
    IF i > Len(logs)
    THEN [found |-> found, searches |-> view, capped |-> FALSE]
    ELSE IF Len(found) >= MAX_LINES
    THEN [found |-> found, searches |-> view, capped |-> TRUE]
    ELSE IF contains(keyword, lower(logs[i])) /\ <<uid, keyword, logs[i]>> \notin view
            /\ logs[i] \notin Range(found)
    THEN scan_norecord(logs, i + 1, uid, keyword, Append(found, logs[i]), view)
    ELSE scan_norecord(logs, i + 1, uid, keyword, found, view)

\* faulty variant of scan: the cap test is off by one
RECURSIVE scan_capoff(_, _, _, _, _, _)
scan_capoff(logs, i, uid, keyword, found, view) ==
    IF i > Len(logs)
    THEN [found |-> found, searches |-> view, capped |-> FALSE]
    ELSE IF Len(found) > MAX_LINES
    THEN [found |-> found, searches |-> view, capped |-> TRUE]
    ELSE IF contains(keyword, lower(logs[i])) /\ <<uid, keyword, logs[i]>> \notin view
    THEN scan_capoff(logs, i + 1, uid, keyword, Append(found, logs[i]),
                     view \cup {<<uid, keyword, logs[i]>>})
    ELSE scan_capoff(logs, i + 1, uid, keyword, found, view)

\* faulty variant of scan: lines are looked up in the ledger as it was when
\* the scan began, the records are written at the end
RECURSIVE scan_stale(_, _, _, _, _, _)
scan_stale(logs, i, uid, keyword, found, view) ==
    IF i > Len(logs)
    THEN [found |-> found, capped |-> FALSE,
          searches |-> view \cup {<<uid, keyword, found[j]>> : j \in 1..Len(found)}]
    ELSE IF Len(found) >= MAX_LINES
    THEN [found |-> found, capped |-> TRUE,
          searches |-> view \cup {<<uid, keyword, found[j]>> : j \in 1..Len(found)}]
    ELSE IF contains(keyword, lower(logs[i])) /\ <<uid, keyword, logs[i]>> \notin view
    THEN scan_stale(logs, i + 1, uid, keyword, Append(found, logs[i]), view)
    ELSE scan_stale(logs, i + 1, uid, keyword, found, view)

\* faulty variant of scan: the ledger is looked up without the user_id
RECURSIVE scan_anyuser(_, _, _, _, _, _)
scan_anyuser(logs, i, uid, keyword, found, view) ==
    IF i > Len(logs)
    THEN [found |-> found, searches |-> view, capped |-> FALSE]
    ELSE IF Len(found) >= MAX_LINES
    THEN [found |-> found, searches |-> view, capped |-> TRUE]
    ELSE IF /\ contains(keyword, lower(logs[i]))
            /\ ~\E k \in view : k[2] = keyword /\ k[3] = logs[i]
    THEN scan_anyuser(logs, i + 1, uid, keyword, Append(found, logs[i]),
                      view \cup {<<uid, keyword, logs[i]>>})
    ELSE scan_anyuser(logs, i + 1, uid, keyword, found, view)

\* faulty variant of scan: the line is not lowercased for the test
RECURSIVE scan_casesensitive(_, _, _, _, _, _)
scan_casesensitive(logs, i, uid, keyword, found, view) ==
    IF i > Len(logs)
    THEN [found |-> found, searches |-> view, capped |-> FALSE]
    ELSE IF Len(found) >= MAX_LINES
    THEN [found |-> found, searches |-> view, capped |-> TRUE]
    ELSE IF contains(keyword, logs[i]) /\ <<uid, keyword, logs[i]>> \notin view
    THEN scan_casesensitive(logs, i + 1, uid, keyword, Append(found, logs[i]),
                            view \cup {<<uid, keyword, logs[i]>>})
    ELSE scan_casesensitive(logs, i + 1, uid, keyword, found, view)

\* faulty variant of scan: past the cap the matching lines are recorded
\* though they are not added to the batch
RECURSIVE scan_recordall(_, _, _, _, _, _)
scan_recordall(logs, i, uid, keyword, found, view) ==
    IF i > Len(logs)
    THEN [found |-> found, searches |-> view, capped |-> FALSE]
    ELSE IF contains(keyword, lower(logs[i])) /\ <<uid, keyword, logs[i]>> \notin view
    THEN scan_recordall(logs, i + 1, uid, keyword,
                        IF Len(found) >= MAX_LINES THEN found ELSE Append(found, logs[i]),
                        view \cup {<<uid, keyword, logs[i]>>})
    ELSE scan_recordall(logs, i + 1, uid, keyword, found, view)

\* the scan loop of process_search over corpus `logs` from position i
RECURSIVE scan(_, _, _, _, _, _)
scan(logs, i, uid, keyword, found, view) ==
    IF i > Len(logs)
    THEN [found |-> found, searches |-> view, capped |-> FALSE]
    ELSE IF Len(found) >= MAX_LINES
    THEN [found |-> found, searches |-> view, capped |-> TRUE]
    ELSE IF contains(keyword, lower(logs[i])) /\ <<uid, keyword, logs[i]>> \notin view
    THEN scan(logs, i + 1, uid, keyword, Append(found, logs[i]),
              view \cup {<<uid, keyword, logs[i]>>})
    ELSE scan(logs, i + 1, uid, keyword, found, view)

\* distinct corpus lines that contain the keyword and are not recorded for
\* (uid, keyword) in `view`
undelivered(logs, uid, keyword, view) ==
    {l \in Range(logs) : contains(keyword, lower(l)) /\ <<uid, keyword, l>> \notin view}

\* ----------------------------------------- handlers, each run to completion
AllIdle == \A f \in Flows : flow[f].pc = "idle"

\* faulty variant of Serial: the handler's statements are not committed
Serial_nocommit(newSearches) ==
    /\ AllIdle
    /\ searches' = newSearches
    /\ UNCHANGED <<committed, aborted, curs, flow>>

\* what every serial handler leaves alone: the connection is between
\* transactions, so the committed table is what the connection sees
Serial(newSearches) ==
    /\ AllIdle
    /\ searches' = newSearches
    /\ committed' = newSearches
    /\ UNCHANGED <<aborted, curs, flow>>

\* history of the batches handed to the transport
Deliver(uid, keyword, found) ==
    LET batch == {<<uid, keyword, l>> : l \in Range(found)}
    IN  /\ resent' = resent \cup (batch \cap sent)
        /\ sent' = sent \cup batch

\* an entry of the log
Event(op, uid, keyword, lines) ==
    [op |-> op, uid |-> uid, kw |-> keyword, lines |-> lines, t |-> now]

\* the log takes an entry if it was started (it is not empty)
Log(e) == history' = IF history = <<>> THEN <<>> ELSE Append(history, e)

\* faulty variant of search_gates: the access check runs before the cooldown answer
search_gates_accessfirst(uid) ==
    LET cd  == check_cooldown(uid)
        acc == user_has_access(uid)
    IN  IF ~cd.allowed
        THEN [outcome |-> "Cooldown", rem |-> cd.rem, users |-> acc.users]
        ELSE IF ~acc.ret
        THEN [outcome |-> "NoAccess", rem |-> 0, users |-> acc.users]
        ELSE [outcome |-> "Pass", rem |-> 0, users |-> users]

\* the two gates of process_search, in the order the handler runs them:
\* which one rejects, and the users table the handler leaves
search_gates(uid) ==
    LET cd  == check_cooldown(uid)
        acc == user_has_access(uid)
    IN  IF ~cd.allowed                                      \* lines 628-633
        THEN [outcome |-> "Cooldown", rem |-> cd.rem, users |-> users]
        ELSE IF ~acc.ret                                    \* lines 635-637
        THEN [outcome |-> "NoAccess", rem |-> 0, users |-> acc.users]
        ELSE [outcome |-> "Pass", rem |-> 0, users |-> users]

\* faulty variant of cooldown_after: every completed scan stamps the cooldown
cooldown_after_always(uid, found) ==
    [user_cooldowns EXCEPT ![uid] = now]

\* _user_cooldowns after the scan: stamped only when lines were found
cooldown_after(uid, found) ==
    IF found = <<>> THEN user_cooldowns                     \* lines 665-670
    ELSE [user_cooldowns EXCEPT ![uid] = now]               \* line 672

\* faulty variant of process_search: the cooldown is stamped after the send
process_search_stamplate(uid, raw, sendOk) ==
    LET g       == search_gates(uid)
        logs    == reload_logs(file)
        keyword == lower(strip(raw))
        r       == scan(logs, 1, uid, keyword, <<>>, searches)
    IN
    /\ UNCHANGED <<now, keys, file>>
    /\ IF g.outcome # "Pass" THEN
           /\ users' = g.users
           /\ last' = Result("search", uid, keyword, g.outcome, <<>>, g.rem, FALSE,
                             g.users # users)
           /\ Serial(searches)
           /\ UNCHANGED <<LOGS, user_cooldowns, histvars>>
       ELSE IF strip(raw) = <<>> THEN
           /\ LOGS' = logs
           /\ last' = Result("search", uid, keyword, "Empty", <<>>, 0, FALSE, FALSE)
           /\ Serial(searches)
           /\ UNCHANGED <<users, user_cooldowns, histvars>>
       ELSE
           /\ LOGS' = logs
           /\ Serial(r.searches)
           /\ user_cooldowns' = IF sendOk THEN cooldown_after(uid, r.found)
                               ELSE user_cooldowns
           /\ UNCHANGED users
           /\ IF r.found = <<>> THEN
                  /\ last' = Result("search", uid, keyword, "NoNewResults", <<>>, 0,
                                    r.capped, FALSE)
                  /\ UNCHANGED histvars
              ELSE
                  /\ foundAt' = [foundAt EXCEPT ![uid] = now]
                  /\ rebooted' = [rebooted EXCEPT ![uid] = FALSE]
                  /\ IF sendOk
                     THEN /\ last' = Result("search", uid, keyword, "Found", r.found, 0,
                                            r.capped, FALSE)
                          /\ Deliver(uid, keyword, r.found)
                          /\ Log(Event("found", uid, keyword, r.found))
                     ELSE /\ last' = Result("search", uid, keyword, "SendFailed", r.found,
                                            0, r.capped, FALSE)
                          /\ Log(Event("failed", uid, keyword, r.found))
                          /\ UNCHANGED <<sent, resent>>

\* process_search(message): uid = message.from_user.id, raw = message.text,
\* sendOk = bot.send_document succeeds
process_search(uid, raw, sendOk) ==
    LET g       == search_gates(uid)
        logs    == reload_logs(file)
        keyword == lower(strip(raw))
        r       == scan(logs, 1, uid, keyword, <<>>, searches)
    IN
    /\ UNCHANGED <<now, keys, file>>
    /\ IF g.outcome # "Pass" THEN                           \* lines 628-637
           /\ users' = g.users
           /\ last' = Result("search", uid, keyword, g.outcome, <<>>, g.rem, FALSE,
                             g.users # users)
           /\ Serial(searches)
           /\ UNCHANGED <<LOGS, user_cooldowns, histvars>>
       ELSE IF strip(raw) = <<>> THEN                       \* lines 639-644
           /\ LOGS' = logs
           /\ last' = Result("search", uid, keyword, "Empty", <<>>, 0, FALSE, FALSE)
           /\ Serial(searches)
           /\ UNCHANGED <<users, user_cooldowns, histvars>>
       ELSE                                                 \* lines 645-698
           /\ LOGS' = logs
           /\ Serial(r.searches)
           /\ user_cooldowns' = cooldown_after(uid, r.found)
           /\ UNCHANGED users
           /\ IF r.found = <<>> THEN                        \* lines 665-670
                  /\ last' = Result("search", uid, keyword, "NoNewResults", <<>>, 0,
                                    r.capped, FALSE)
                  /\ UNCHANGED histvars
              ELSE                                          \* lines 672-698
                  /\ foundAt' = [foundAt EXCEPT ![uid] = now]
                  /\ rebooted' = [rebooted EXCEPT ![uid] = FALSE]
                  /\ IF sendOk
                     THEN /\ last' = Result("search", uid, keyword, "Found", r.found, 0,
                                            r.capped, FALSE)
                          /\ Deliver(uid, keyword, r.found)
                          /\ Log(Event("found", uid, keyword, r.found))
                     ELSE /\ last' = Result("search", uid, keyword, "SendFailed", r.found,
                                            0, r.capped, FALSE)
                          /\ Log(Event("failed", uid, keyword, r.found))
                          /\ UNCHANGED <<sent, resent>>

\* cmd_start(message): the access check of /start
cmd_start(uid) ==
    LET acc == user_has_access(uid)
    IN  /\ users' = acc.users
        /\ last' = Result("start", uid, <<>>, IF acc.ret THEN "Welcome" ELSE "NoAccess",
                          <<>>, 0, FALSE, acc.users # users)
        /\ Serial(searches)
        /\ UNCHANGED <<now, keys, file, LOGS, user_cooldowns, histvars>>

\* ------------------------------------------- storage calls that may fail
\* db_execute tries the statement `for attempt in range(2)` (line 218)
ATTEMPTS == 2

\* what one _curs.execute (with the ensure_db before it) may do
ExecOutcomes == {"ok", "OperationalError", "OtherError"}

\* db_execute(query, params) for a write statement (fetch=False).
\* outs[a]: what attempt a of the statement does; conns[a]: new_conn()
\* succeeds in the handler of attempt a's OperationalError.
\* ret: "None" when the call returns, "raised" when it raises;
\* executed: the statement ran on the connection the caller then commits
RECURSIVE db_execute(_, _, _)
db_execute(attempt, outs, conns) ==
    IF attempt > ATTEMPTS
    THEN [ret |-> "None", executed |-> FALSE]                \* line 237
    ELSE IF outs[attempt] = "ok"
    THEN [ret |-> "None", executed |-> TRUE]                 \* lines 221-225
    ELSE IF outs[attempt] = "OperationalError"
    THEN IF conns[attempt]                                   \* lines 226-234
         THEN db_execute(attempt + 1, outs, conns)
         ELSE [ret |-> "raised", executed |-> FALSE]
    ELSE [ret |-> "raised", executed |-> FALSE]              \* lines 235-236

\* cmd_start(message) when the statements of db_execute may fail: the call
\* of user_has_access (lines 333-343) deletes an expired row through
\* db_execute and commits
cmd_start_storage(uid, outs, conns) ==
    LET expires == users[uid]
        r       == db_execute(1, outs, conns)
    IN  /\ Serial(searches)
        /\ UNCHANGED <<now, keys, file, LOGS, user_cooldowns, histvars>>
        /\ IF expires = None THEN                            \* lines 335-336
               /\ UNCHANGED users
               /\ last' = Result("start", uid, <<>>, "NoAccess", <<>>, 0, FALSE, FALSE)
           ELSE IF now <= expires THEN                       \* lines 338-339
               /\ UNCHANGED users
               /\ last' = Result("start", uid, <<>>, "Welcome", <<>>, 0, FALSE, FALSE)
           ELSE IF r.ret = "raised" THEN                     \* line 341 raises
               /\ UNCHANGED users
               /\ last' = Result("start", uid, <<>>, "Raised", <<>>, 0, FALSE, FALSE)
           ELSE                                              \* lines 341-343
               /\ users' = IF r.executed THEN [users EXCEPT ![uid] = None] ELSE users
               /\ last' = Result("start", uid, <<>>, "NoAccess", <<>>, 0, FALSE,
                                 r.executed)

\* history: a delsearch of (uid, keyword) forgets what was sent for it
Forget(uid, keyword) ==
    /\ sent' = {k \in sent : ~(k[1] = uid /\ k[2] = keyword)}
    /\ IF \E k \in searches : k[1] = uid /\ k[2] = keyword
       THEN Log(Event("clear", uid, keyword, <<>>))
       ELSE UNCHANGED history
    /\ UNCHANGED <<resent, foundAt, rebooted>>

\* what an admin handler never touches
AdminFrame == UNCHANGED <<now, user_cooldowns, last>>

\* the answers that refuse a request: "Not authorized" (chat), 401 (web)
Refusals == {"grant refused", "revoke refused", "delkey refused",
             "delsearch refused", "web refused"}

\* history: a log that audits the admin surfaces (its first entry is
\* "audit") takes the refusal of a request; refusals in a row are folded
\* into the latest
Answer(refused, op, uid) ==
    LET e == Event(op, uid, <<>>, <<>>)
        n == Len(history)
    IN  /\ history' = IF refused /\ history # <<>> /\ history[1].op = "audit"
                      THEN IF history[n].op \in Refusals
                           THEN [history EXCEPT ![n] = e]
                           ELSE Append(history, e)
                      ELSE history
        /\ UNCHANGED <<sent, resent, foundAt, rebooted>>

\* faulty variant of cmd_grant: a grant extends an expiry that has not lapsed
cmd_grant_stacking(sender, uid, days) ==
    /\ IF sender # ADMIN_ID
       THEN UNCHANGED users
       ELSE users' = [users EXCEPT ![uid] =
                         IF users[uid] # None /\ users[uid] > now
                         THEN users[uid] + days * DAY
                         ELSE now + days * DAY]
    /\ Serial(searches)
    /\ AdminFrame
    /\ UNCHANGED <<keys, file, LOGS, histvars>>

\* cmd_grant(message): /grant <user_id> <days>
cmd_grant(sender, uid, days) ==
    /\ IF sender # ADMIN_ID                                \* lines 441-443
       THEN UNCHANGED users
       ELSE users' = [users EXCEPT ![uid] = now + days * DAY]
    /\ Serial(searches)
    /\ AdminFrame
    /\ Answer(sender # ADMIN_ID, "grant refused", uid)
    /\ UNCHANGED <<keys, file, LOGS>>

\* faulty variant of cmd_revoke: the sender is not compared with ADMIN_ID
cmd_revoke_ungated(sender, uid) ==
    /\ users' = [users EXCEPT ![uid] = None]
    /\ Serial(searches)
    /\ AdminFrame
    /\ UNCHANGED <<keys, file, LOGS, histvars>>

\* cmd_revoke(message): /revoke <user_id>
cmd_revoke(sender, uid) ==
    /\ IF sender # ADMIN_ID                                \* lines 418-420
       THEN UNCHANGED users
       ELSE users' = [users EXCEPT ![uid] = None]
    /\ Serial(searches)
    /\ AdminFrame
    /\ Answer(sender # ADMIN_ID, "revoke refused", uid)
    /\ UNCHANGED <<keys, file, LOGS>>

\* faulty variant of cmd_delsearch: the DELETE is not scoped to the keyword
cmd_delsearch_allkeywords(sender, uid, raw) ==
    LET kw == lower(strip(raw))
    IN
    /\ IF sender # ADMIN_ID \/ strip(raw) = <<>>
       THEN /\ Serial(searches)
            /\ UNCHANGED histvars
       ELSE /\ Serial({k \in searches : k[1] # uid})
            /\ Forget(uid, kw)
    /\ AdminFrame
    /\ UNCHANGED <<keys, file, LOGS, users>>

\* DELETE FROM keys WHERE key=%s
DeleteKey(key) == [k \in DOMAIN keys \ {key} |-> keys[k]]

\* faulty variant of cmd_delkey: the key is released instead of deleted
cmd_delkey_release(sender, raw) ==
    /\ IF sender # ADMIN_ID \/ strip(raw) = <<>>
       THEN UNCHANGED keys
       ELSE keys' = [k \in DOMAIN keys |->
                        IF k = strip(raw) THEN [keys[k] EXCEPT !.redeemed_by = None]
                        ELSE keys[k]]
    /\ Serial(searches)
    /\ AdminFrame
    /\ UNCHANGED <<file, LOGS, users, histvars>>

\* cmd_delkey(message): /delkey <key>
cmd_delkey(sender, raw) ==
    /\ IF sender # ADMIN_ID \/ strip(raw) = <<>>           \* lines 399-405
       THEN UNCHANGED keys
       ELSE keys' = DeleteKey(strip(raw))                  \* lines 406-410
    /\ Serial(searches)
    /\ AdminFrame
    /\ Answer(sender # ADMIN_ID, "delkey refused", 0)
    /\ UNCHANGED <<file, LOGS, users>>

\* redeem(token, user): one transaction that selects the key only if its
\* redeemed_by is null, sets redeemed_by and upserts the user's expiry to the
\* key's expires; InvalidOrUsedKey otherwise
redeem(token, uid) ==
    /\ IF token \in DOMAIN keys /\ keys[token].redeemed_by = None
       THEN /\ keys' = [keys EXCEPT ![token].redeemed_by = uid]
            /\ users' = [users EXCEPT ![uid] = keys[token].expires]
            /\ last' = Result("redeem", uid, token, "Redeemed", <<>>, 0, FALSE, FALSE)
       ELSE /\ UNCHANGED <<keys, users>>
            /\ last' = Result("redeem", uid, token, "InvalidOrUsedKey",
                              <<>>, 0, FALSE, FALSE)
    /\ Serial(searches)
    /\ UNCHANGED <<now, file, LOGS, user_cooldowns, histvars>>

\* cmd_delsearch(message): /delsearch <user_id> <keyword>
cmd_delsearch(sender, uid, raw) ==
    LET kw == lower(strip(raw))
    IN
    /\ IF sender # ADMIN_ID \/ strip(raw) = <<>>           \* lines 464-470
       THEN /\ Serial(searches)
            /\ Answer(sender # ADMIN_ID, "delsearch refused", uid)
       ELSE /\ Serial({k \in searches : ~(k[1] = uid /\ k[2] = kw)})
            /\ Forget(uid, kw)
    /\ AdminFrame
    /\ UNCHANGED <<keys, file, LOGS, users>>

\* web_admin(): POST /admin?token=..., action in delkey, revoke, grant,
\* delsearch, uploadlog; raw is the key or keyword text, f the uploaded file
web_admin(token, action, uid, days, raw, f) ==
    LET kw == lower(strip(raw))
    IN
    /\ AdminFrame
    /\ IF token # ADMIN_WEB_TOKEN THEN                     \* lines 78-79
           /\ Serial(searches)
           /\ Answer(TRUE, "web refused", uid)
           /\ UNCHANGED <<keys, file, LOGS, users>>
       ELSE IF action = "delkey" THEN                      \* lines 86-91
           /\ keys' = IF strip(raw) # <<>> THEN DeleteKey(strip(raw)) ELSE keys
           /\ Serial(searches)
           /\ UNCHANGED <<file, LOGS, users, histvars>>
       ELSE IF action = "revoke" THEN                      \* lines 92-97
           /\ users' = [users EXCEPT ![uid] = None]
           /\ Serial(searches)
           /\ UNCHANGED <<keys, file, LOGS, histvars>>
       ELSE IF action = "grant" THEN                       \* lines 98-108
           /\ users' = IF days > 0 THEN [users EXCEPT ![uid] = now + days * DAY]
                       ELSE users
           /\ Serial(searches)
           /\ UNCHANGED <<keys, file, LOGS, histvars>>
       ELSE IF action = "delsearch" THEN                   \* lines 109-115
           /\ IF kw # <<>>
              THEN /\ Serial({k \in searches : ~(k[1] = uid /\ k[2] = kw)})
                   /\ Forget(uid, kw)
              ELSE /\ Serial(searches)
                   /\ UNCHANGED histvars
           /\ UNCHANGED <<keys, file, LOGS, users>>
       ELSE                                                \* lines 116-125
           /\ action = "uploadlog"
           /\ IF token = WEBHOOK_UPLOAD_TOKEN
              THEN /\ file' = f
                   /\ LOGS' = reload_logs(f)
              ELSE UNCHANGED <<file, LOGS>>
           /\ Serial(searches)
           /\ UNCHANGED <<keys, users, histvars>>

WebActions == {"delkey", "revoke", "grant", "delsearch", "uploadlog"}

\* ------------------------------------------------ reading the ledger back
\* column found_at of the row of `line` for (uid, keyword): DEFAULT NOW()
\* (line 270) is the start time of the transaction, and all rows a search
\* inserts are written in its one transaction (lines 651-662), so they carry
\* the same value.  Read from the log: the time of the search that wrote it.
found_at(uid, keyword, line) ==
    LET writes == {i \in 1..Len(history) :
                      /\ history[i].op \in {"found", "failed"}
                      /\ history[i].uid = uid /\ history[i].kw = keyword
                      /\ line \in Range(history[i].lines)}
    IN  history[maxOf(writes)].t

\* the rows of SELECT line FROM searches WHERE user_id=%s AND keyword=%s
saved_lines(uid, keyword) ==
    {k[3] : k \in {r \in searches : r[1] = uid /\ r[2] = keyword}}

\* the sequences that hold every element of S once
Perms(S) ==
    {f \in [1..Cardinality(S) -> S] : \A i, j \in 1..Cardinality(S) : f[i] = f[j] => i = j}

\* ... ORDER BY found_at ASC: every order of the rows that is ascending in
\* found_at; rows with equal found_at come in any order
OrderByFoundAt(uid, keyword) ==
    {s \in Perms(saved_lines(uid, keyword)) :
        \A i, j \in 1..Len(s) :
            i < j => found_at(uid, keyword, s[i]) <= found_at(uid, keyword, s[j])}

\* ... LIMIT %s with MAX_LINES
Limit(s) == SubSeq(s, 1, minOf({MAX_LINES, Len(s)}))

\* cmd_exportsearches(message): /exportsearches <user_id> <keyword>;
\* order: the order in which the database returns the rows
cmd_exportsearches(sender, uid, raw, order) ==
    LET kw == lower(strip(raw))
    IN
    /\ history # <<>>
    /\ Serial(searches)
    /\ UNCHANGED <<now, keys, file, LOGS, users, user_cooldowns, histvars>>
    /\ IF sender # ADMIN_ID THEN                            \* lines 484-486
           last' = Result("export", uid, kw, "NotAuthorized", <<>>, 0, FALSE, FALSE)
       ELSE IF strip(raw) = <<>> THEN                       \* lines 487-490
           last' = Result("export", uid, kw, "Usage", <<>>, 0, FALSE, FALSE)
       ELSE                                                 \* lines 496-505
           /\ order \in OrderByFoundAt(uid, kw)
           /\ last' = Result("export", uid, kw,
                             IF order = <<>> THEN "NoSaved" ELSE "Exported",
                             Limit(order), 0, FALSE, FALSE)

\* web_export_search(): GET /export_search?token=...&user_id=...&keyword=...
web_export_search(token, uid, raw, order) ==
    LET kw == lower(strip(raw))
    IN
    /\ history # <<>>
    /\ Serial(searches)
    /\ UNCHANGED <<now, keys, file, LOGS, users, user_cooldowns, histvars>>
    /\ IF token # ADMIN_WEB_TOKEN THEN                      \* lines 174-175
           last' = Result("export", uid, kw, "Unauthorized", <<>>, 0, FALSE, FALSE)
       ELSE IF kw = <<>> THEN                               \* lines 178-179
           last' = Result("export", uid, kw, "BadRequest", <<>>, 0, FALSE, FALSE)
       ELSE                                                 \* lines 180-187
           /\ order \in OrderByFoundAt(uid, kw)
           /\ last' = Result("export", uid, kw,
                             IF order = <<>> THEN "NoSaved" ELSE "Exported",
                             Limit(order), 0, FALSE, FALSE)

\* LOG_FILE is replaced on disk from outside the process
FileWritten(f) ==
    /\ f # file
    /\ file' = f
    /\ UNCHANGED <<now, keys, LOGS, dbvars, user_cooldowns, flow, last, histvars>>

\* the clock advances
Tick ==
    /\ now < MaxTime
    /\ now' = now + 1
    /\ UNCHANGED <<keys, file, LOGS, dbvars, user_cooldowns, flow, last, histvars>>

\* the clock advances, one cooldown further than Tick takes it
TickLate ==
    /\ now < MaxTime + COOLDOWN_SECONDS
    /\ now' = now + 1
    /\ UNCHANGED <<keys, file, LOGS, dbvars, user_cooldowns, flow, last, histvars>>

\* the process is stopped and started again: module state is rebuilt
\* (lines 203-204, 278-292, 297), the database keeps what was committed
Restart ==
    /\ LOGS' = reload_logs(file)
    /\ user_cooldowns' = [u \in Users |-> 0]
    /\ searches' = committed
    /\ aborted' = FALSE
    /\ curs' = None
    /\ flow' = [f \in Flows |-> IdleFlow]
    /\ rebooted' = [u \in Users |-> foundAt[u] # None]
    /\ UNCHANGED <<now, keys, file, users, committed, last, sent, resent, foundAt, history>>

\* ------------------------------------------- process_search, interleaved
\* TeleBot(threaded=True) runs handlers on worker threads; all of them use
\* the one connection _conn and the one cursor _curs (lines 203-204).  A
\* step is one statement sent over the connection or one read of the cursor.
\* curs: None after a statement that returns no rows (INSERT, DELETE),
\* otherwise the number of rows of the last SELECT not fetched yet.

Finish(f, outcome) ==
    [flow EXCEPT ![f].pc = "done", ![f].outcome = outcome,
                 ![f].at = IF outcome = "Found" THEN now ELSE 0]
Raise(f)           == [flow EXCEPT ![f].pc = "raised", ![f].outcome = "Raised"]

\* lines 626-633: the handler starts and asks the cooldown gate
conc_start(f, uid, raw) ==
    /\ flow[f].pc = "idle"
    /\ flow' = IF check_cooldown(uid).allowed
               THEN [flow EXCEPT ![f].pc = "access", ![f].uid = uid, ![f].raw = raw]
               ELSE [flow EXCEPT ![f].pc = "done", ![f].uid = uid, ![f].raw = raw,
                                 ![f].outcome = "Cooldown"]
    /\ UNCHANGED <<now, keys, file, LOGS, dbvars, user_cooldowns, last, histvars>>

\* lines 635-637 with user_has_access, lines 333-343: SELECT, fetchone and,
\* for an expired row, DELETE and commit
conc_access(f) ==
    LET uid == flow[f].uid
        acc == user_has_access(uid)
    IN
    /\ flow[f].pc = "access"
    /\ UNCHANGED <<now, keys, file, LOGS, user_cooldowns, last, histvars>>
    /\ IF aborted THEN                       \* the SELECT raises
           /\ flow' = Raise(f)
           /\ UNCHANGED dbvars
       ELSE IF acc.ret THEN
           /\ flow' = [flow EXCEPT ![f].pc = "reload"]
           /\ curs' = 0
           /\ UNCHANGED <<users, searches, committed, aborted>>
       ELSE
           /\ flow' = Finish(f, "NoAccess")
           /\ users' = acc.users
           /\ curs' = IF acc.users # users THEN None ELSE 0
           /\ committed' = IF acc.users # users THEN searches ELSE committed
           /\ UNCHANGED <<searches, aborted>>

\* reload_logs, line 281: LOGS = []
conc_reload_clear(f) ==
    /\ flow[f].pc = "reload"
    /\ LOGS' = <<>>
    /\ flow' = [flow EXCEPT ![f].pc = "load"]
    /\ UNCHANGED <<now, keys, file, dbvars, user_cooldowns, last, histvars>>

\* reload_logs, lines 285-286: LOGS = [...]
conc_reload_load(f) ==
    /\ flow[f].pc = "load"
    /\ LOGS' = reload_logs(file)
    /\ flow' = [flow EXCEPT ![f].pc = "keyword"]
    /\ UNCHANGED <<now, keys, file, dbvars, user_cooldowns, last, histvars>>

\* lines 641-653: the keyword is normalized and the loop takes its iterator
\* over the list LOGS names at that moment
conc_keyword(f) ==
    /\ flow[f].pc = "keyword"
    /\ flow' = IF strip(flow[f].raw) = <<>>
               THEN Finish(f, "Empty")
               ELSE [flow EXCEPT ![f].pc = "loop", ![f].keyword = lower(strip(flow[f].raw)),
                                 ![f].it = LOGS, ![f].i = 1, ![f].found = <<>>]
    /\ UNCHANGED <<now, keys, file, LOGS, dbvars, user_cooldowns, last, histvars>>

\* lines 653-657: one turn of the loop up to the SELECT
conc_loop(f) ==
    LET w    == flow[f]
        line == w.it[w.i]
    IN
    /\ w.pc = "loop"
    /\ UNCHANGED <<now, keys, file, LOGS, users, searches, committed, aborted,
                   user_cooldowns, last, histvars>>
    /\ IF w.i > Len(w.it) \/ Len(w.found) >= MAX_LINES THEN
           /\ flow' = [flow EXCEPT ![f].pc = "commit"]
           /\ UNCHANGED curs
       ELSE IF ~contains(w.keyword, lower(line)) THEN
           /\ flow' = [flow EXCEPT ![f].i = w.i + 1]
           /\ UNCHANGED curs
       ELSE IF aborted THEN                  \* the SELECT raises
           /\ flow' = Raise(f)
           /\ UNCHANGED curs
       ELSE
           /\ flow' = [flow EXCEPT ![f].pc = "fetch"]
           /\ curs' = IF <<w.uid, w.keyword, line>> \in searches THEN 1 ELSE 0

\* line 658: _curs.fetchone() reads whatever the shared cursor holds
conc_fetch(f) ==
    /\ flow[f].pc = "fetch"
    /\ UNCHANGED <<now, keys, file, LOGS, users, searches, committed, aborted,
                   user_cooldowns, last, histvars>>
    /\ IF curs = None THEN                   \* no results to fetch: raises
           /\ flow' = Raise(f)
           /\ UNCHANGED curs
       ELSE IF curs = 0 THEN                 \* None: the line counts as new
           /\ flow' = [flow EXCEPT ![f].pc = "insert"]
           /\ UNCHANGED curs
       ELSE                                  \* a row: the line is skipped
           /\ flow' = [flow EXCEPT ![f].pc = "loop", ![f].i = flow[f].i + 1]
           /\ curs' = curs - 1

\* lines 659-660: found.append(line) and the INSERT
conc_insert(f) ==
    LET w    == flow[f]
        key  == <<w.uid, w.keyword, w.it[w.i]>>
        more == Append(w.found, w.it[w.i])
    IN
    /\ w.pc = "insert"
    /\ UNCHANGED <<now, keys, file, LOGS, users, committed, user_cooldowns, last, histvars>>
    /\ IF aborted THEN                       \* the INSERT raises
           /\ flow' = [Raise(f) EXCEPT ![f].found = more]
           /\ UNCHANGED <<searches, aborted, curs>>
       ELSE IF key \in searches THEN         \* primary key (lines 265-272)
           /\ flow' = [Raise(f) EXCEPT ![f].found = more]
           /\ aborted' = TRUE
           /\ UNCHANGED <<searches, curs>>
       ELSE
           /\ flow' = [flow EXCEPT ![f].pc = "loop", ![f].i = w.i + 1, ![f].found = more]
           /\ searches' = searches \cup {key}
           /\ curs' = None
           /\ UNCHANGED aborted

\* line 662: db_commit(); the commit of a failed transaction rolls it back
conc_commit(f) ==
    /\ flow[f].pc = "commit"
    /\ flow' = [flow EXCEPT ![f].pc = "finish"]
    /\ IF aborted
       THEN /\ searches' = committed
            /\ aborted' = FALSE
            /\ UNCHANGED committed
       ELSE /\ committed' = searches
            /\ UNCHANGED <<searches, aborted>>
    /\ UNCHANGED <<now, keys, file, LOGS, users, curs, user_cooldowns, last, histvars>>

\* lines 665-698: the answer
conc_finish(f, sendOk) ==
    LET w == flow[f]
    IN
    /\ w.pc = "finish"
    /\ user_cooldowns' = cooldown_after(w.uid, w.found)
    /\ UNCHANGED <<now, keys, file, LOGS, dbvars, last>>
    /\ IF w.found = <<>> THEN
           /\ flow' = Finish(f, "NoNewResults")
           /\ UNCHANGED histvars
       ELSE
           /\ foundAt' = [foundAt EXCEPT ![w.uid] = now]
           /\ rebooted' = [rebooted EXCEPT ![w.uid] = FALSE]
           /\ IF sendOk
              THEN /\ flow' = Finish(f, "Found")
                   /\ Deliver(w.uid, w.keyword, w.found)
                   /\ Log(Event("found", w.uid, w.keyword, w.found))
              ELSE /\ flow' = Finish(f, "SendFailed")
                   /\ Log(Event("failed", w.uid, w.keyword, w.found))
                   /\ UNCHANGED <<sent, resent>>

\* the handler has returned or raised: its worker thread takes the next call
conc_return(f) ==
    /\ flow[f].pc \in {"done", "raised"}
    /\ flow' = [flow EXCEPT ![f] = IdleFlow]
    /\ UNCHANGED <<now, keys, file, LOGS, dbvars, user_cooldowns, last, histvars>>

\* ------------------------------------------------------- specifications
\* an access record far beyond the clock's range
FarFuture == MaxTime + MaxDays * DAY + 1

InitState(files, access) ==
    /\ now = T0
    /\ file \in files
    /\ LOGS = reload_logs(file)              \* line 292: loaded at import
    /\ users = access
    /\ searches = {}
    /\ committed = {}
    /\ aborted = FALSE
    /\ curs = None
    /\ user_cooldowns = [u \in Users |-> 0]
    /\ flow = [f \in Flows |-> IdleFlow]
    /\ last = NoOp
    /\ sent = {}
    /\ resent = {}
    /\ foundAt = [u \in Users |-> None]
    /\ rebooted = [u \in Users |-> FALSE]

\* the log is not kept
InitWith(files, access) ==
    InitState(files, access) /\ history = <<>> /\ keys = NoKeys

\* The whole serial system: every handler, every input.
Init == InitWith(Files, [u \in Users |-> None])

Next ==
    \/ \E u \in Users, raw \in RawKeywords, ok \in BOOLEAN : process_search(u, raw, ok)
    \/ \E u \in Users : cmd_start(u)
    \/ \E s \in Senders, u \in Users, days \in 0..MaxDays : cmd_grant(s, u, days)
    \/ \E s \in Senders, u \in Users : cmd_revoke(s, u)
    \/ \E s \in Senders, u \in Users, raw \in RawKeywords : cmd_delsearch(s, u, raw)
    \/ \E t \in Tokens, a \in WebActions, u \in Users, days \in 0..MaxDays,
          raw \in RawKeywords, f \in Files : web_admin(t, a, u, days, raw, f)
    \/ \E f \in Files : FileWritten(f)
    \/ Tick
    \/ Restart

Spec == Init /\ [][Next]_vars

\* The access ledger: grants of every length, revokes, the clock, the access
\* checks of /start and of searches over a fixed corpus.
InitAccess == InitWith({FileMain}, [u \in Users |-> None])

NextAccess ==
    \/ \E u \in Users, raw \in {KwB, KwBlank} : process_search(u, raw, TRUE)
    \/ \E u \in Users : cmd_start(u)
    \/ \E s \in Senders, u \in Users, days \in 0..MaxDays : cmd_grant(s, u, days)
    \/ \E s \in Senders, u \in Users : cmd_revoke(s, u)
    \/ \E t \in Tokens, u \in Users, days \in 0..MaxDays :
           web_admin(t, "grant", u, days, KwBlank, file)
    \/ \E t \in Tokens, u \in Users : web_admin(t, "revoke", u, 0, KwBlank, file)
    \/ Tick

SpecAccess == InitAccess /\ [][NextAccess]_vars

\* The delivery ledger: user 1 searches every keyword over every corpus,
\* with resets, uploads, restarts, revokes and renewed grants.
InitDedup == InitWith(Files, [u \in Users |-> None])

NextDedup ==
    \/ \E raw \in RawKeywords, ok \in BOOLEAN : process_search(1, raw, ok)
    \/ cmd_grant(ADMIN_ID, 1, MaxDays)
    \/ cmd_revoke(ADMIN_ID, 1)
    \/ \E s \in Senders, raw \in RawKeywords : cmd_delsearch(s, 1, raw)
    \/ \E raw \in RawKeywords : web_admin(ADMIN_WEB_TOKEN, "delsearch", 1, 0, raw, file)
    \/ \E t \in Tokens, f \in Files : web_admin(t, "uploadlog", 1, 0, KwBlank, f)
    \/ Tick
    \/ Restart

SpecDedup == InitDedup /\ [][NextDedup]_vars

\* The cooldown gate: two users search, user 2 with standing access, user 1
\* under grants that lapse; the corpus file changes under the process.
InitCooldown == InitWith({FileMain}, [u \in Users |-> IF u = 2 THEN FarFuture ELSE None])

NextCooldown ==
    \/ \E raw \in {KwB, KwBlank}, ok \in BOOLEAN : process_search(1, raw, ok)
    \/ process_search(2, KwB, TRUE)
    \/ cmd_start(1)
    \/ \E days \in 0..MaxDays : cmd_grant(ADMIN_ID, 1, days)
    \/ cmd_revoke(ADMIN_ID, 1)
    \/ \E u \in Users : cmd_delsearch(ADMIN_ID, u, KwB)
    \/ web_admin(ADMIN_WEB_TOKEN, "uploadlog", 1, 0, KwBlank, FileMain)
    \/ \E f \in Files : FileWritten(f)
    \/ Tick
    \/ Restart

SpecCooldown == InitCooldown /\ [][NextCooldown]_vars

\* Two worker threads run process_search over the corpus FileMain; both
\* users hold access.
InitConc == InitWith({FileMain}, [u \in Users |-> FarFuture])

NextConc ==
    \/ \E f \in Flows, raw \in {KwA, KwB} : conc_start(f, 1, raw)
    \/ \E f \in Flows : conc_access(f)
    \/ \E f \in Flows : conc_reload_clear(f)
    \/ \E f \in Flows : conc_reload_load(f)
    \/ \E f \in Flows : conc_keyword(f)
    \/ \E f \in Flows : conc_loop(f)
    \/ \E f \in Flows : conc_fetch(f)
    \/ \E f \in Flows : conc_insert(f)
    \/ \E f \in Flows : conc_commit(f)
    \/ \E f \in Flows, ok \in BOOLEAN : conc_finish(f, ok)
    \/ \E f \in Flows : conc_return(f)
    \/ Tick

SpecConc == InitConc /\ [][NextConc]_vars

\* The storage layer under faults: access checks whose DELETE of an expired
\* row goes through db_execute while statements and reconnects may fail.
InitStore == InitWith({FileMain}, [u \in Users |-> None])

NextStore ==
    \/ \E u \in Users, outs \in [1..ATTEMPTS -> ExecOutcomes],
          conns \in [1..ATTEMPTS -> BOOLEAN] : cmd_start_storage(u, outs, conns)
    \/ \E u \in Users, days \in 0..MaxDays : cmd_grant(ADMIN_ID, u, days)
    \/ \E u \in Users : cmd_revoke(ADMIN_ID, u)
    \/ Tick

SpecStore == InitStore /\ [][NextStore]_vars

\* The key table: two unredeemed keys, users that redeem them or an unknown
\* token, the admin's deletes and revokes.
InitKeys ==
    /\ InitState({FileMain}, [u \in Users |-> None])
    /\ history = <<>>
    /\ keys = [k \in KeyNames |->
                  [expires |-> IF k = Key1 THEN T0 + DAY ELSE FarFuture,
                   redeemed_by |-> None]]

NextKeys ==
    \/ \E token \in KeyNames \cup {KwB}, u \in Users : redeem(token, u)
    \/ \E s \in Senders, raw \in RawKeys : cmd_delkey(s, raw)
    \/ \E t \in Tokens, raw \in RawKeys : web_admin(t, "delkey", 0, 0, raw, file)
    \/ \E u \in Users : cmd_revoke(ADMIN_ID, u)
    \/ Tick

SpecKeys == InitKeys /\ [][NextKeys]_vars

\* Two users with standing access search both keywords over the corpus
\* FileMain, one after the other.
InitFrame == InitWith({FileMain}, [u \in Users |-> FarFuture])

NextFrame ==
    \/ \E u \in Users, raw \in {KwA, KwB}, ok \in BOOLEAN : process_search(u, raw, ok)
    \/ Tick

SpecFrame == InitFrame /\ [][NextFrame]_vars

\* Retries: user 1 keeps access and searches with sends that may fail; the
\* process may restart and the admin may reset a keyword.
InitRetry == InitWith({FileMain}, [u \in Users |-> FarFuture])

NextRetry ==
    \/ \E raw \in {KwA, KwB}, ok \in BOOLEAN : process_search(1, raw, ok)
    \/ cmd_delsearch(ADMIN_ID, 1, KwB)
    \/ Tick
    \/ Restart

SpecRetry == InitRetry /\ [][NextRetry]_vars

\* Draining a keyword: user 1 keeps access and searches again and again over
\* a corpus that stays as it is, long enough for three passes; the admin
\* may reset a keyword.
InitDrain ==
    /\ InitState(Files, [u \in Users |-> FarFuture + COOLDOWN_SECONDS])
    /\ history = <<[op |-> "init", uid |-> 0, kw |-> <<>>, lines |-> <<>>, t |-> T0]>>
    /\ keys = NoKeys

NextDrain ==
    \/ \E raw \in {KwA, KwB}, ok \in BOOLEAN : process_search(1, raw, ok)
    \/ cmd_delsearch(ADMIN_ID, 1, KwA)
    \/ TickLate

SpecDrain == InitDrain /\ [][NextDrain]_vars

\* The admin surfaces, audited: every sender and token asks for grants,
\* revokes, key deletes and delsearches over tables that hold rows, at one
\* instant (the gate of no handler reads the clock).
InitAdmin ==
    /\ InitState({FileMain}, [u \in Users |-> FarFuture])
    /\ history = <<[op |-> "audit", uid |-> 0, kw |-> <<>>, lines |-> <<>>, t |-> T0]>>
    /\ keys = [k \in KeyNames |-> [expires |-> FarFuture, redeemed_by |-> None]]

AdminActions == {"delkey", "revoke", "grant", "delsearch"}

NextAdmin ==
    \/ process_search(1, KwB, TRUE)
    \/ \E s \in Senders : cmd_grant(s, 1, MaxDays)
    \/ \E s \in Senders : cmd_revoke(s, 1)
    \/ \E s \in Senders : cmd_delkey(s, Key1)
    \/ \E s \in Senders : cmd_delsearch(s, 1, KwB)
    \/ \E t \in Tokens, action \in AdminActions, raw \in {Key1, KwB} :
           web_admin(t, action, 1, MaxDays, raw, file)

SpecAdmin == InitAdmin /\ [][NextAdmin]_vars

\* The delivery ledger with its log: searches of user 1, resets and exports
\* over a corpus that stays as it is.
InitLedger ==
    /\ InitState(Files, [u \in Users |-> FarFuture])
    /\ history = <<[op |-> "init", uid |-> 0, kw |-> <<>>, lines |-> <<>>, t |-> T0]>>
    /\ keys = NoKeys

NextLedger ==
    \/ \E raw \in {KwA, KwB}, ok \in BOOLEAN : process_search(1, raw, ok)
    \/ \E s \in Senders, raw \in RawKeywords : cmd_delsearch(s, 1, raw)
    \/ \E raw \in RawKeywords : web_admin(ADMIN_WEB_TOKEN, "delsearch", 1, 0, raw, file)
    \/ \E s \in Senders, raw \in RawKeywords :
           \E order \in OrderByFoundAt(1, lower(strip(raw))) :
               cmd_exportsearches(s, 1, raw, order)
    \/ \E t \in Tokens, raw \in RawKeywords :
           \E order \in OrderByFoundAt(1, lower(strip(raw))) :
               web_export_search(t, 1, raw, order)
    \/ Tick

SpecLedger == InitLedger /\ [][NextLedger]_vars

\* ----------------------------------------------------------------- claims
SearchStep(u) == \E raw \in RawKeywords, ok \in BOOLEAN : process_search(u, raw, ok)

Scanned == {"Found", "SendFailed", "NoNewResults"}

recorded(view, uid, keyword) == {k \in view : k[1] = uid /\ k[2] = keyword}

\* the distinct corpus lines that contain the keyword
matching(logs, keyword) == {l \in Range(logs) : contains(keyword, lower(l))}

\* the corpus positions whose line contains the keyword and is not recorded
undelivered_positions(logs, uid, keyword, view) ==
    {i \in 1..Len(logs) :
        contains(keyword, lower(logs[i])) /\ <<uid, keyword, logs[i]>> \notin view}

\* C1: at-most-once delivery. No line is handed to a user for a keyword in
\* more than one Found batch, as long as no delsearch of that user and
\* keyword lies between the two batches - across revokes, renewed grants,
\* uploads of another corpus and process restarts.
C1_AtMostOnce == resent = {}


\* C2: access gating. A search step creates delivery records for u, or hands
\* u a batch, only if u's access record exists and has not passed its expiry
\* at that moment; a search of a user without a record or with an expired
\* one that gets past the cooldown gate ends in NoAccess, and no search of
\* such a user creates a delivery record.
C2_AccessGating ==
    [][\A u \in Users :
         /\ ((\E k \in (searches' \ searches) \cup (sent' \ sent) : k[1] = u)
             => users[u] # None /\ now <= users[u])
         /\ (SearchStep(u) /\ (users[u] = None \/ now > users[u])
             => /\ last'.outcome \in {"NoAccess", "Cooldown"}
                /\ (check_cooldown(u).allowed => last'.outcome = "NoAccess")
                /\ searches' = searches /\ sent' = sent)]_vars

\* a user who was served before is denied once the record is gone
C2_Witness ==
    /\ last.op = "search" /\ last.outcome = "NoAccess" /\ last.evicted
    /\ users[last.uid] = None
    /\ \E k \in sent : k[1] = last.uid

\* C3 as stated: the first search(U, K) returns the full set of matching
\* lines and the search that follows it (corpus unchanged, cooldown ignored)
\* returns NoNewResults.
C3_Original ==
    [][\A u \in Users :
         (SearchStep(u) /\ last'.outcome \in Scanned
            /\ recorded(searches, u, last'.kw) = {})
         => /\ Range(last'.found) = matching(LOGS', last'.kw)
            /\ scan(reload_logs(file'), 1, u, last'.kw, <<>>, searches').found = <<>>]_vars

\* C3 amended: the same, provided the number of distinct matching lines does
\* not exceed MAX_LINES.
C3_DedupIdempotence ==
    [][\A u \in Users :
         (SearchStep(u) /\ last'.outcome \in Scanned
            /\ recorded(searches, u, last'.kw) = {}
            /\ Cardinality(matching(LOGS', last'.kw)) <= MAX_LINES)
         => /\ Range(last'.found) = matching(LOGS', last'.kw)
            /\ scan(reload_logs(file'), 1, u, last'.kw, <<>>, searches').found = <<>>]_vars

\* a first search that returned the whole (non-empty) match set
C3_Witness ==
    /\ last.op = "search" /\ last.outcome = "Found"
    /\ Range(last.found) = matching(LOGS, last.kw)
    /\ recorded(searches, last.uid, last.kw) =
          {<<last.uid, last.kw, l>> : l \in Range(last.found)}
    /\ LOGS = reload_logs(file)

C5_Original ==
    [][\A u \in Users :
         SearchStep(u)
         => /\ (foundAt[u] # None
                => IF now < foundAt[u] + COOLDOWN_SECONDS
                   THEN last'.outcome = "Cooldown" /\ last'.rem > 0
                   ELSE last'.outcome # "Cooldown")
            /\ (last'.outcome = "NoNewResults"
                => user_cooldowns'[u] = user_cooldowns[u])]_vars

\* C5 amended: the same, provided the process was not restarted since that
\* search (the cooldown map is process-local and empty after a restart).
C5_CooldownGating ==
    [][\A u \in Users :
         SearchStep(u)
         => /\ (foundAt[u] # None /\ ~rebooted[u]
                => IF now < foundAt[u] + COOLDOWN_SECONDS
                   THEN last'.outcome = "Cooldown" /\ last'.rem > 0
                   ELSE last'.outcome # "Cooldown")
            /\ (last'.outcome = "NoNewResults"
                => user_cooldowns'[u] = user_cooldowns[u])]_vars

\* a search that passed the gate at exactly T + COOLDOWN_SECONDS and found
\* nothing new
C5_Witness ==
    /\ last.op = "search" /\ last.outcome = "NoNewResults"
    /\ foundAt[last.uid] # None /\ ~rebooted[last.uid]
    /\ now = foundAt[last.uid] + COOLDOWN_SECONDS
    /\ user_cooldowns[last.uid] = foundAt[last.uid]

\* C6: only a search of u that found new lines writes u's cooldown entry:
\* no search that ends in CooldownActive, NoAccess, Empty or NoNewResults,
\* no admin operation and no search of another user changes it. (A restart
\* starts a new process with an empty map; it is none of these operations.)
C6_CooldownFrame ==
    [][Restart \/
       \A u \in Users :
         user_cooldowns'[u] # user_cooldowns[u]
         => /\ SearchStep(u)
            /\ last'.uid = u
            /\ last'.outcome \in {"Found", "SendFailed"}
            /\ last'.found # <<>>]_vars

\* another user's search found lines while this user's earlier timestamp
\* stayed as it was
C6_Witness ==
    /\ last.op = "search" /\ last.outcome = "Found" /\ last.uid = 2
    /\ user_cooldowns[2] = now
    /\ user_cooldowns[1] # 0 /\ user_cooldowns[1] < now
    /\ user_cooldowns[1] = foundAt[1]

\* C7: a search rejected by the cooldown gate touches no shared state: the
\* corpus is not reloaded, the user's access record is not evicted even when
\* it has expired, and no delivery record is written.
C7_CooldownRejectFrame ==
    [][\A u \in Users :
         (SearchStep(u) /\ last'.outcome = "Cooldown")
         => UNCHANGED <<keys, file, LOGS, users, searches, committed, user_cooldowns, sent>>]_vars

\* a rejected search of a user whose record has expired, with a corpus file
\* that changed on disk since it was loaded
C7_Witness ==
    /\ last.op = "search" /\ last.outcome = "Cooldown"
    /\ users[last.uid] # None /\ now > users[last.uid]
    /\ LOGS # reload_logs(file)

\* C8: lazy eviction. user_has_access(u), called while u's record has its
\* expiry in the past, returns false and deletes the record, so that
\* get_user_expiry(u) then finds none; called on an unexpired record it
\* returns true and leaves the record.
C8_LazyEviction ==
    [][\A u \in Users :
         (cmd_start(u) /\ users[u] # None)
         => IF now > users[u]
            THEN last'.outcome = "NoAccess" /\ get_user_expiry(u)' = None
            ELSE last'.outcome = "Welcome" /\ users' = users]_vars

\* /start evicted the caller's expired record
C8_Witness ==
    /\ last.op = "start" /\ last.outcome = "NoAccess" /\ last.evicted
    /\ get_user_expiry(last.uid) = None

\* C9 as stated: user_has_access(u) returns true exactly when u's record has
\* expires_at strictly greater than now; at now = expires_at it is false.
C9_Original ==
    [][\A u \in Users :
         cmd_start(u)
         => (last'.outcome = "Welcome" <=> (users[u] # None /\ users[u] > now))]_vars

\* C9 amended: true exactly when expires_at >= now; at now = expires_at it
\* is true.
C9_AccessBoundary ==
    [][\A u \in Users :
         cmd_start(u)
         => (last'.outcome = "Welcome" <=> (users[u] # None /\ users[u] >= now))]_vars

\* access confirmed at the instant of expiry
C9_Witness ==
    /\ last.op = "start" /\ last.outcome = "Welcome"
    /\ users[last.uid] = now

Final(f) == flow[f].pc \in {"done", "raised"}

\* the flows that handed the line to the transport in their result batch
returned_in(line) ==
    {f \in Flows : flow[f].outcome \in {"Found", "SendFailed"}
                   /\ line \in Range(flow[f].found)}

\* C10: concurrent dedup. When two interleaved flows of process_search for
\* the same user and the same normalized keyword have both scanned and
\* ended, every line that either of them took for new has exactly one
\* delivery record and is in the result batch of exactly one of the flows.
C10_ConcurrentDedup ==
    (/\ Final(1) /\ Final(2)
     /\ flow[1].uid = flow[2].uid
     /\ flow[1].keyword = flow[2].keyword
     /\ flow[1].keyword # <<>>)
    => \A line \in Range(flow[1].found) \cup Range(flow[2].found) :
          /\ <<flow[1].uid, flow[1].keyword, line>> \in committed
          /\ Cardinality(returned_in(line)) = 1

\* C11: recording a delivery is idempotent. An INSERT of a delivery record
\* whose key (user, keyword, line) is already in the table leaves the table
\* as it is and lets the search go on: it neither raises nor puts the
\* transaction in the failed state.
C11_IdempotentInsert ==
    [][\A f \in Flows :
          (/\ flow[f].pc = "insert"
           /\ flow'[f] # flow[f]
           /\ ~aborted
           /\ <<flow[f].uid, flow[f].keyword, flow[f].it[flow[f].i]>> \in searches)
          => (/\ flow'[f].pc = "loop"
              /\ searches' = searches
              /\ ~aborted')]_vars

\* C12: the cooldown gate is an atomic check-and-set per user. Two flows of
\* one user never both end in Found less than COOLDOWN_SECONDS apart.
C12_AtomicCooldown ==
    \A f \in Flows, g \in Flows :
        (/\ f # g
         /\ flow[f].pc = "done" /\ flow[f].outcome = "Found"
         /\ flow[g].pc = "done" /\ flow[g].outcome = "Found"
         /\ flow[f].uid = flow[g].uid
         /\ flow[f].at <= flow[g].at)
        => flow[g].at - flow[f].at >= COOLDOWN_SECONDS

\* C13: corpus reload is an atomic swap. The list a scan iterates is the
\* complete content of a corpus file, never an empty or partial sequence
\* (every corpus file here is non-empty and readable).
C13_AtomicSwap ==
    \A f \in Flows :
        flow[f].pc \in {"loop", "fetch", "insert"}
        => flow[f].it \in {reload_logs(g) : g \in Files}

\* C14: storage writes are never silently dropped. When the access check
\* meets an expired row, its DELETE through db_execute either has been
\* executed when the call returns (the row is gone after the commit) or the
\* call raises to the handler.
C14_NoSilentDrop ==
    [][\A u \in Users, outs \in [1..ATTEMPTS -> ExecOutcomes],
          conns \in [1..ATTEMPTS -> BOOLEAN] :
          (/\ cmd_start_storage(u, outs, conns)
           /\ users[u] # None /\ now > users[u])
          => (last'.outcome = "Raised" \/ users'[u] = None)]_vars

\* C15: a failed send keeps the delivery records. When the transport fails
\* to take the batch of a search, the records of the batch's lines are
\* committed and stay; and no search hands out or records again a line whose
\* record is committed, so a later search of the user and keyword does not
\* return those lines.
C15_SendFailureKeepsRecords ==
    [][\A u \in Users :
          SearchStep(u)
          => LET rows == {<<u, last'.kw, l>> : l \in Range(last'.found)}
             IN  /\ last'.outcome = "SendFailed"
                    => (rows # {} /\ rows \subseteq committed' /\ committed \subseteq committed')
                 /\ last'.outcome \in {"Found", "SendFailed"}
                    => rows \cap committed = {}]_vars

\* a search after a failed send scans the lines of the batch that never
\* reached the user and returns none of them
C15_Witness ==
    /\ last.op = "search" /\ last.outcome = "NoNewResults"
    /\ \E k \in committed :
          /\ k[1] = last.uid /\ k[2] = last.kw
          /\ k[3] \in matching(LOGS, last.kw)
          /\ k \notin sent

\* the positions of corpus `logs` that hold line l
positions(logs, l) == {i \in 1..Len(logs) : logs[i] = l}

\* C17: dedup is content-based within one scan. The batch of a search holds
\* no line twice, also when the corpus holds a matching line at several
\* positions, and the search adds exactly one delivery record per line of
\* its batch.
C17_ContentDedup ==
    [][\A u \in Users :
          (SearchStep(u) /\ last'.outcome \in {"Found", "SendFailed"})
          => LET F == last'.found
             IN  /\ \A i \in 1..Len(F), j \in 1..Len(F) : F[i] = F[j] => i = j
                 /\ searches' \ searches = {<<u, last'.kw, F[i]>> : i \in 1..Len(F)}
                 /\ Cardinality(searches' \ searches) = Len(F)]_vars

\* a batch with a line that the corpus holds at two positions or more
C17_Witness ==
    /\ last.op = "search" /\ last.outcome = "Found"
    /\ \E i \in 1..Len(last.found) :
          /\ Cardinality(positions(LOGS, last.found[i])) >= 2
          /\ Cardinality(positions(last.found, last.found[i])) = 1
          /\ <<last.uid, last.kw, last.found[i]>> \in searches

\* an authorised delsearch of user u with a keyword text that is not blank
DelsearchStep(u, raw) ==
    /\ strip(raw) # <<>>
    /\ \/ cmd_delsearch(ADMIN_ID, u, raw)
       \/ web_admin(ADMIN_WEB_TOKEN, "delsearch", u, 0, raw, file)

\* entry i of the log is about the ledger of (u, K)
About(i, u, K) == history[i].uid = u /\ history[i].kw = K

\* entry i is a batch delivered to u for K out of an empty ledger: every
\* earlier entry about (u, K) is followed by a delsearch of (u, K) before i
FirstBatch(i, u, K) ==
    /\ About(i, u, K) /\ history[i].op = "found"
    /\ \A m \in 1..(i - 1) :
          About(m, u, K)
          => \E c \in m..(i - 1) : About(c, u, K) /\ history[c].op = "clear"

\* entry j is the delsearch that ended the ledger begun with entry i
ClearedAfter(i, j, u, K) ==
    /\ i < j /\ About(j, u, K) /\ history[j].op = "clear"
    /\ \A c \in (i + 1)..(j - 1) : ~(About(c, u, K) /\ history[c].op = "clear")

\* C16: reset round trip. A delsearch of (u, K) removes all delivery records
\* of u for the normalized keyword K and no other record.  After the first
\* batch for (u, K) has been delivered and a delsearch has cleared (u, K), the
\* next search of u for K that passes the gates returns, over the same
\* corpus, the lines of that first batch.
C16_ResetRoundTrip ==
    [][/\ \A u \in Users, raw \in RawKeywords :
             DelsearchStep(u, raw)
             => /\ searches' = {k \in searches :
                                   ~(k[1] = u /\ k[2] = lower(strip(raw)))}
                /\ committed' = searches'
       /\ \A u \in Users :
             (SearchStep(u) /\ last'.outcome \in Scanned)
             => \A i \in 1..Len(history), j \in 1..Len(history) :
                   (/\ FirstBatch(i, u, last'.kw)
                    /\ ClearedAfter(i, j, u, last'.kw)
                    /\ \A m \in (j + 1)..Len(history) : ~About(m, u, last'.kw))
                   => /\ last'.found = history[i].lines
                      /\ last'.outcome \in {"Found", "SendFailed"}]_vars

\* the log holds a first batch of two lines, the delsearch of its keyword
\* and the same batch again
C16_Witness ==
    \E i \in 1..Len(history), j \in 1..Len(history), k \in 1..Len(history) :
        LET u == history[i].uid
            K == history[i].kw
        IN  /\ FirstBatch(i, u, K) /\ ClearedAfter(i, j, u, K)
            /\ j < k /\ About(k, u, K) /\ history[k].op = "found"
            /\ \A m \in (j + 1)..(k - 1) : ~About(m, u, K)
            /\ history[k].lines = history[i].lines
            /\ Len(history[i].lines) = MAX_LINES

\* C18: deterministic read order. An export of the delivered lines of (U, K)
\* returns them ordered by insertion timestamp, lines with the same timestamp
\* (inserted by one search) ordered by line content, cut at the cap; so every
\* read of one ledger state returns the same sequence.
C18_DeterministicOrder ==
    [][\A u \in Users, raw \in RawKeywords :
          \A order \in OrderByFoundAt(u, lower(strip(raw))) :
             LET K == lower(strip(raw))
                 ord(c) == CASE c = " " -> 32 [] c = "A" -> 65 [] c = "B" -> 66
                             [] c = "a" -> 97 [] c = "b" -> 98
                             [] c = "x" -> 120 [] c = "y" -> 121
                 before(a, b) ==          \* a < b as strings
                     \E i \in 1..(Len(a) + 1) :
                         /\ i <= Len(b)
                         /\ \A m \in 1..(i - 1) : m <= Len(b) /\ a[m] = b[m]
                         /\ (i <= Len(a) => ord(a[i]) < ord(b[i]))
                 sorted(s) ==
                     \A i, j \in 1..Len(s) :
                         i < j =>
                            \/ found_at(u, K, s[i]) < found_at(u, K, s[j])
                            \/ /\ found_at(u, K, s[i]) = found_at(u, K, s[j])
                               /\ before(s[i], s[j])
             IN  (/\ strip(raw) # <<>>
                  /\ \/ cmd_exportsearches(ADMIN_ID, u, raw, order)
                     \/ web_export_search(ADMIN_WEB_TOKEN, u, raw, order))
                 => \E s \in OrderByFoundAt(u, K) :
                        sorted(s) /\ last'.found = Limit(s)]_vars

\* a grant that is carried out: /grant from the admin, or the web form with
\* the admin token and a positive number of days (lines 100-101)
GrantStep(u, d) ==
    \/ cmd_grant(ADMIN_ID, u, d)
    \/ d > 0 /\ web_admin(ADMIN_WEB_TOKEN, "grant", u, d, KwBlank, file)

\* C19: grant overwrites and does not stack. After grant(U, d) at time t the
\* expiry of U is t + d days whatever expiry U held before, and the access
\* record of no other user changes.
C19_GrantOverwrites ==
    [][\A u \in Users, d \in 0..MaxDays :
          GrantStep(u, d)
          => /\ users'[u] = now + d * DAY
             /\ \A v \in Users \ {u} : users'[v] = users[v]]_vars

\* a user who searched at this instant, so held an expiry later than now,
\* holds the expiry now: a grant of zero days has replaced the longer expiry;
\* the other user holds a record too
C19_Witness ==
    \E u \in Users :
        /\ now > T0
        /\ user_cooldowns[u] = now /\ last.op = "search" /\ last.uid = u
        /\ last.outcome \in {"Found", "NoNewResults"}
        /\ users[u] = now
        /\ \A v \in Users \ {u} : users[v] # None /\ users[v] > now

TablesUnchanged == UNCHANGED <<keys, users, searches, committed>>

\* C21: administrative gating. A grant, revoke, delkey or delsearch asked
\* over chat by a sender other than ADMIN_ID, or over the web with a token
\* other than ADMIN_WEB_TOKEN, leaves the tables keys, users and searches
\* unchanged.
C21_AdminGating ==
    [][/\ \A s \in Senders \ {ADMIN_ID}, u \in Users :
             (\/ cmd_grant(s, u, MaxDays)
              \/ cmd_revoke(s, u)
              \/ cmd_delkey(s, Key1)
              \/ cmd_delsearch(s, u, KwB))
             => TablesUnchanged
       /\ \A t \in Tokens \ {ADMIN_WEB_TOKEN}, action \in AdminActions,
             u \in Users, raw \in {Key1, KwB} :
             web_admin(t, action, u, MaxDays, raw, file) => TablesUnchanged]_vars

\* the log ends with a search that wrote delivery records and a request
\* refused over the web after it, and the key, the access record and the
\* delivery records are there
C21_Witness ==
    LET n == Len(history)
    IN  /\ n >= 3
        /\ history[n].op = "web refused"
        /\ history[n - 1].op = "found"
        /\ Key1 \in DOMAIN keys
        /\ users[1] # None
        /\ \E k \in searches : k[1] = 1 /\ k[2] = lower(strip(KwB))

\* the entries of the log that are batches of (u, K) since its last delsearch
batches(u, K) ==
    {i \in 1..Len(history) :
        /\ About(i, u, K) /\ history[i].op \in {"found", "failed"}
        /\ \A c \in (i + 1)..Len(history) : ~(About(c, u, K) /\ history[c].op = "clear")}

\* C22: draining after a cap hit. Over an unchanged corpus, with access kept,
\* every pass of search(U, K) that finds something returns lines that contain
\* K and that no earlier batch held, so the batches are pairwise disjoint and
\* after finitely many passes nothing is left; a pass returns NoNewResults
\* exactly when the batches before it hold every distinct corpus line
\* containing K, the lines beyond the cap point of a pass among them.
C22_Draining ==
    [][\A u \in Users :
          (SearchStep(u) /\ last'.outcome \in Scanned)
          => LET K    == last'.kw
                 all  == matching(LOGS', K)
                 got  == UNION {Range(history[i].lines) : i \in batches(u, K)}
                 new  == Range(last'.found)
             IN  /\ \A i, j \in batches(u, K) :
                        i # j => Range(history[i].lines) \cap Range(history[j].lines) = {}
                 /\ got \subseteq all
                 /\ new \subseteq all /\ new \cap got = {}
                 /\ Cardinality(new) = Len(last'.found)
                 /\ (last'.outcome = "NoNewResults") <=> (got = all)
                 /\ (last'.outcome = "NoNewResults") <=> (new = {})]_vars

\* a pass filled the cap, a later pass surfaced what lay beyond the cap
\* point, and the pass after that returned NoNewResults
C22_Witness ==
    /\ last.op = "search" /\ last.outcome = "NoNewResults"
    /\ \E i, j \in batches(last.uid, last.kw) :
          /\ i < j
          /\ Len(history[i].lines) = MAX_LINES
          /\ history[j].lines # <<>>
          /\ history[j].t < now

\* the first position of corpus `logs` that holds line l
firstpos(logs, l) == minOf(positions(logs, l))

\* C23: the batch of search(U, K) is, in corpus order, the first min(C, n)
\* distinct lines that contain the normalized keyword, whatever their case,
\* and are not yet recorded for (U, K), n being the number of such distinct
\* lines; the pass records the lines of its batch and no other line, so
\* nothing beyond the cap point is recorded.
C23_FirstUndelivered ==
    [][\A u \in Users :
          (SearchStep(u) /\ last'.outcome \in Scanned)
          => LET K == last'.kw
                 F == last'.found
                 U == undelivered(LOGS', u, K, searches)
             IN  /\ Len(F) = minOf({MAX_LINES, Cardinality(U)})
                 /\ \A i \in 1..Len(F) : F[i] \in U
                 /\ \A i, j \in 1..Len(F) :
                        i < j => firstpos(LOGS', F[i]) < firstpos(LOGS', F[j])
                 /\ \A l \in U \ Range(F), i \in 1..Len(F) :
                        firstpos(LOGS', F[i]) < firstpos(LOGS', l)
                 /\ searches' = searches \cup {<<u, K, F[i]>> : i \in 1..Len(F)}]_vars

\* a batch that begins after a corpus line recorded by an earlier pass, with
\* a line that matches only when its case is folded
C23_Witness ==
    /\ last.op = "search" /\ last.outcome = "Found" /\ last.found # <<>>
    /\ contains(last.kw, lower(last.found[1])) /\ ~contains(last.kw, last.found[1])
    /\ \E l \in matching(LOGS, last.kw) \ Range(last.found) :
          /\ firstpos(LOGS, l) < firstpos(LOGS, last.found[1])
          /\ <<last.uid, last.kw, l>> \in searches

\* C24: the frame of a search. A search of user U with normalized keyword K
\* adds only delivery records (U, K, line) with line containing K and deletes
\* none, so it leaves the records of every other user and keyword as they
\* are; and what it returns does not depend on them: a batch below the cap
\* holds every matching line not recorded for (U, K), also the lines that
\* are recorded for another user or for another keyword of U.
C24_SearchFrame ==
    [][\A u \in Users :
          SearchStep(u)
          => LET K == last'.kw
                 F == last'.found
             IN  /\ searches \subseteq searches' /\ committed \subseteq committed'
                 /\ \A k \in (searches' \ searches) \cup (committed' \ committed) :
                        /\ k[1] = u /\ k[2] = K /\ K # <<>>
                        /\ contains(K, lower(k[3]))
                 /\ \A v \in Users, K2 \in Keywords :
                        <<v, K2>> # <<u, K>>
                        => recorded(searches', v, K2) = recorded(searches, v, K2)
                 /\ (last'.outcome \in Scanned /\ Len(F) < MAX_LINES)
                    => \A l \in matching(LOGS', K) :
                           <<u, K, l>> \notin searches => l \in Range(F)]_vars

\* a search returned a line that is recorded for the other user under the
\* same keyword, while the user holds records of another keyword
C24_Witness ==
    /\ last.op = "search" /\ last.outcome = "Found"
    /\ \E l \in Range(last.found), v \in Users \ {last.uid} :
          /\ <<v, last.kw, l>> \in searches
          /\ <<last.uid, last.kw, l>> \in searches
    /\ \E k \in searches : k[1] = last.uid /\ k[2] # last.kw

\* the search before this one was u's, found new lines and failed to send
\* them; nothing but the clock, the admin and a restart acted since
FailedBefore(u) ==
    /\ last.op = "search" /\ last.uid = u /\ last.outcome = "SendFailed"
    /\ foundAt[u] # None

\* what C25 says of a search step of u, the retry counted as inside the
\* cooldown when `cooling` holds
SendFailureCooling(u, cooling) ==
    /\ last'.outcome = "SendFailed"
       => /\ {<<u, last'.kw, l>> : l \in Range(last'.found)} \subseteq committed'
          /\ user_cooldowns'[u] = now
    /\ (FailedBefore(u) /\ cooling) => last'.outcome = "Cooldown"
    /\ (/\ FailedBefore(u) /\ now >= foundAt[u] + COOLDOWN_SECONDS
        /\ last'.outcome \in Scanned /\ last'.kw = last.kw
        /\ {<<u, last.kw, l>> : l \in Range(last.found)} \subseteq committed)
       => /\ Range(last'.found) \cap Range(last.found) = {}
          /\ (undelivered(LOGS', u, last.kw, searches) = {}
              => last'.outcome = "NoNewResults")

\* C25 as stated: in a search that found new lines the records are committed
\* and the cooldown is stamped before the send, so after a failed send a
\* retry within COOLDOWN_SECONDS is rejected with CooldownActive and a retry
\* after it returns none of those lines (NoNewResults when nothing else is
\* left).
C25_Original ==
    [][\A u \in Users :
          SearchStep(u)
          => SendFailureCooling(u, now < foundAt[u] + COOLDOWN_SECONDS)]_vars

\* C25 amended: the same, the retry within COOLDOWN_SECONDS being rejected
\* provided the process was not restarted since the failed send.
C25_SendFailureCooling ==
    [][\A u \in Users :
          SearchStep(u)
          => SendFailureCooling(u, now < foundAt[u] + COOLDOWN_SECONDS /\ ~rebooted[u])]_vars

\* the retry after the cooldown of a failed send, in the same process:
\* NoNewResults, though the line of the batch never reached the user
C25_Witness ==
    /\ last.op = "search" /\ last.outcome = "NoNewResults"
    /\ foundAt[last.uid] # None /\ ~rebooted[last.uid]
    /\ now >= foundAt[last.uid] + COOLDOWN_SECONDS
    /\ user_cooldowns[last.uid] = foundAt[last.uid]
    /\ \E k \in committed :
          /\ k[1] = last.uid /\ k[2] = last.kw
          /\ k[3] \in matching(LOGS, last.kw)
          /\ k \notin sent

====
